---- MODULE Spec2Model ----
(***************************************************************************)
(* Vision-assist server: the post-detection pipeline of VisionProcessor    *)
(* (iou, remove_overlapping_objects, process_pil) and the analyze_frame    *)
(* endpoint that drives it.                                                *)
(*                                                                         *)
(* Units.  Python floats are modelled by exact integers and rationals:     *)
(*   - widths of KNOWN_WIDTH are in tenths of a centimetre (1.0 cm = 10);  *)
(*   - distance_cm is in tenths of a centimetre (round(x, 1) * 10);        *)
(*   - the values of the distances map are in hundredths of a metre        *)
(*     (round(x, 2) * 100);                                                *)
(*   - score is in hundredths (round(conf, 2) * 100);                      *)
(*   - the value of iou is the rational num/den.                           *)
(* None is the empty tuple and a present value v is <<v>>.                 *)
(***************************************************************************)
EXTENDS Integers, Sequences, FiniteSets

VARIABLES
    KNOWN_WIDTH,        \* vp.KNOWN_WIDTH: label -> width
    FOCAL_LENGTH_PX,    \* vp.FOCAL_LENGTH_PX
    pc,                 \* per request: where its analyze_frame call stands
    height_px,          \* process_pil local: img.shape[0]
    objects,            \* process_pil local: detections before deduplication
    filtered_objects,   \* remove_overlapping_objects local: the references it
                        \* holds, as positions in objects
    out,                \* process_pil local: the result under construction
    failure,            \* the call that raised in the current request, or "none"
    response,           \* what the last finished analyze_frame call returned
    iouA, iouB,         \* arguments of a stand-alone iou call
    iouOut              \* its outcome

vars == << KNOWN_WIDTH, FOCAL_LENGTH_PX, pc, height_px, objects,
           filtered_objects, out, failure, response, iouA, iouB, iouOut >>

serverVars == << KNOWN_WIDTH, FOCAL_LENGTH_PX, pc, height_px, objects,
                 filtered_objects, out, failure, response >>

iouVars == << iouA, iouB, iouOut >>

----------------------------------------------------------------------------
(* Bounds of the model.                                                    *)

MaxDets == 3

MaxCoord == 3

----------------------------------------------------------------------------
(* Small helpers.                                                          *)

Max(a, b) == IF a >= b THEN a ELSE b

Min(a, b) == IF a <= b THEN a ELSE b

Range(s) == { s[i] : i \in 1..Len(s) }

None == << >>

Some(v) == << v >>

EmptyMap == [ l \in {} |-> 0 ]

Put(m, k, v) == [ l \in (DOMAIN m) \cup {k} |-> IF l = k THEN v ELSE m[l] ]

----------------------------------------------------------------------------
(* The reference-width table built by VisionProcessor.__init__.            *)

KnownWidthEntries ==
    << <<"pen", 10>>, <<"pencil", 10>>, <<"eraser", 30>>, <<"sharpener", 40>>,
       <<"ruler", 300>>, <<"notebook small", 150>>, <<"notebook large", 210>>,
       <<"binder", 250>>, <<"scissors", 150>>, <<"stapler", 120>>,
       <<"tape dispenser", 150>>, <<"marker", 20>>, <<"highlighter", 20>>,
       <<"calculator", 150>>, <<"mouse wireless", 60>>, <<"keyboard small", 400>>,
       <<"keyboard large", 500>>, <<"monitor small", 400>>, <<"monitor large", 600>>,
       <<"printer", 500>>, <<"scanner", 400>>, <<"router", 200>>, <<"modem", 150>>,
       <<"external hard drive", 120>>, <<"usb stick", 20>>, <<"smartwatch", 50>>,
       <<"headset", 180>>, <<"speaker small", 150>>, <<"speaker large", 300>>,
       <<"microphone", 50>>, <<"camera small", 120>>, <<"camera dslr", 150>>,
       <<"tripod small", 100>>, <<"tripod large", 150>>, <<"guitar acoustic", 350>>,
       <<"guitar electric", 320>>, <<"violin", 300>>, <<"drum small", 350>>,
       <<"drum large", 500>>, <<"keyboard piano", 1200>>, <<"basketball", 240>>,
       <<"soccer ball", 220>>, <<"tennis ball", 65>>, <<"tennis racket", 270>>,
       <<"baseball bat", 75>>, <<"helmet bike", 250>>, <<"helmet motorbike", 300>>,
       <<"backpack small", 250>>, <<"backpack large", 350>>, <<"suitcase small", 400>>,
       <<"suitcase large", 600>>, <<"handbag", 250>>, <<"wallet", 100>>,
       <<"shoe adult", 120>>, <<"shoe child", 80>>, <<"boot", 150>>, <<"sock", 50>>,
       <<"hat", 200>>, <<"glasses", 140>>, <<"sunglasses", 140>>,
       <<"umbrella closed", 80>>, <<"umbrella open", 1000>>, <<"chair office", 500>>,
       <<"chair dining", 450>>, <<"stool", 350>>, <<"table small", 600>>,
       <<"table large", 1500>>, <<"coffee table", 1000>>, <<"sofa 2-seater", 1500>>,
       <<"sofa 3-seater", 2000>>, <<"bed single", 1000>>, <<"bed double", 1400>>,
       <<"bed queen", 1600>>, <<"bed king", 1800>>, <<"pillow", 500>>,
       <<"blanket", 1500>>, <<"curtain small", 800>>, <<"curtain large", 1500>>,
       <<"door", 900>>, <<"window small", 600>>, <<"window large", 1200>>,
       <<"refrigerator small", 600>>, <<"refrigerator large", 800>>,
       <<"microwave", 500>>, <<"oven", 600>>, <<"sink", 600>>,
       <<"washing machine", 700>>, <<"dishwasher", 600>>, <<"toaster", 250>>,
       <<"kettle", 200>>, <<"lamp desk", 200>>, <<"lamp floor", 400>>,
       <<"clock wall", 300>>, <<"clock desk", 150>>, <<"vase small", 100>>,
       <<"vase large", 200>>, <<"flower pot", 200>>, <<"bottle water", 70>>,
       <<"bottle soda", 70>>, <<"cup small", 80>>, <<"cup large", 100>>,
       <<"plate small", 200>>, <<"plate large", 250>>, <<"bowl", 200>>, <<"spoon", 50>>,
       <<"fork", 50>>, <<"knife", 50>>, <<"chair stool", 350>>, <<"table round", 1200>> >>

KnownWidthTable ==
    [ l \in { KnownWidthEntries[i][1] : i \in 1..Len(KnownWidthEntries) } |->
        LET i == CHOOSE j \in 1..Len(KnownWidthEntries) :
                     /\ KnownWidthEntries[j][1] = l
                     /\ \A k \in (j+1)..Len(KnownWidthEntries) :
                            KnownWidthEntries[k][1] # l
        IN  KnownWidthEntries[i][2] ]

FocalLengthPx == 850

----------------------------------------------------------------------------
(* Python's round(x, ndigits) on the float x = fl(n / (d * S)), S = 10^ndigits, *)
(* returned scaled by S.  Away from a decimal tie the float error cannot   *)
(* change the result.  On a tie the binary float lies below, on or above   *)
(* the tie: FloatDir decides it from the remainder of the 53-bit division, *)
(* and an exactly representable tie rounds half to even.                   *)

RECURSIVE ShiftUp(_, _, _)
ShiftUp(a, b, t) == IF a >= b THEN t ELSE ShiftUp(2 * a, b, t + 1)

RECURSIVE ShiftDown(_, _, _)
ShiftDown(a, b, e) == IF 2 * b > a THEN e ELSE ShiftDown(a, 2 * b, e + 1)

\* the largest e with 2^e <= a/b, for a, b > 0
FloorLog2(a, b) == IF a >= b THEN ShiftDown(a, b, 0) ELSE 0 - ShiftUp(a, b, 0)

RECURSIVE Pow2Mod(_, _, _)
Pow2Mod(r, s, b) == IF s <= 0 THEN r ELSE Pow2Mod((2 * r) % b, s - 1, b)

\* the sign of fl(a/b) - a/b for a, b > 0
FloatDir(a, b) ==
    LET s   == 52 - FloorLog2(a, b)
        rem == Pow2Mod(a % b, s, b)
    IN  IF rem = 0 THEN 0 ELSE IF 2 * rem < b THEN 0 - 1 ELSE 1

RoundPos(n, d, S) ==
    LET q == n \div d
        r == n % d
    IN  IF 2 * r < d THEN q
        ELSE IF 2 * r > d THEN q + 1
        ELSE LET dir == FloatDir(n, d * S)
             IN  IF dir < 0 THEN q
                 ELSE IF dir > 0 THEN q + 1
                 ELSE IF q % 2 = 0 THEN q ELSE q + 1

RoundQ(n, d, S) ==
    LET nn == IF d < 0 THEN 0 - n ELSE n
        dd == IF d < 0 THEN 0 - d ELSE d
    IN  IF nn = 0 THEN 0
        ELSE IF nn > 0 THEN RoundPos(nn, dd, S)
        ELSE 0 - RoundPos(0 - nn, dd, S)

----------------------------------------------------------------------------
(* VisionProcessor.iou.  A box is <<x1, y1, x2, y2>>.                      *)

interArea(a, b) ==
    LET xA == Max(a[1], b[1])
        yA == Max(a[2], b[2])
        xB == Min(a[3], b[3])
        yB == Min(a[4], b[4])
    IN  Max(0, xB - xA) * Max(0, yB - yA)

boxArea(a) == (a[3] - a[1]) * (a[4] - a[2])

ZeroDivisionError == [ raised |-> TRUE, num |-> 0, den |-> 1 ]

Float(n, d) == [ raised |-> FALSE, num |-> n, den |-> d ]

\* interArea / float(boxAArea + boxBArea - interArea)
Divide(n, d) == IF d = 0 THEN ZeroDivisionError ELSE Float(n, d)

iou_unguarded(a, b) ==
    Divide(interArea(a, b), boxArea(a) + boxArea(b) - interArea(a, b))

iou(a, b) ==
    IF interArea(a, b) = 0
    THEN Float(0, 1)
    ELSE Divide(interArea(a, b), boxArea(a) + boxArea(b) - interArea(a, b))

\* comparisons of a float result with the rational tn/td, td > 0
Greater(q, tn, td) ==
    IF q.den > 0 THEN q.num * td > tn * q.den ELSE q.num * td < tn * q.den

Equal(q, tn, td) == q.num * td = tn * q.den

\* the overlap threshold 0.5 of remove_overlapping_objects
IouThreshold == [ num |-> 1, den |-> 2 ]

----------------------------------------------------------------------------
(* VisionProcessor.remove_overlapping_objects.  filtered holds references  *)
(* to the dicts of objs, modelled as their positions in objs.              *)

\* the overlap test with >= in place of >
SameLabelOverlapInclusive(obj, f) ==
    /\ obj.label = f.label
    /\ \/ Greater(iou(obj.bbox, f.bbox), IouThreshold.num, IouThreshold.den)
       \/ Equal(iou(obj.bbox, f.bbox), IouThreshold.num, IouThreshold.den)

SameLabelOverlap(obj, f) ==
    /\ obj.label = f.label
    /\ Greater(iou(obj.bbox, f.bbox), IouThreshold.num, IouThreshold.den)

\* the inner loop over filtered_objects: "keep", "drop" or "raise"
RECURSIVE InnerLoop(_, _, _, _)

\* the candidate is compared with the most recently accepted detection only
InnerLoopLastOnly(objs, i, filtered, k) ==
    IF Len(filtered) = 0 THEN "keep"
    ELSE IF SameLabelOverlap(objs[i], objs[filtered[Len(filtered)]])
    THEN "drop"
    ELSE "keep"

InnerLoop(objs, i, filtered, k) ==
    IF k > Len(filtered) THEN "keep"
    ELSE LET obj == objs[i]
             f   == objs[filtered[k]]
         IN  IF obj.label = f.label /\ iou(obj.bbox, f.bbox).raised
             THEN "raise"
             ELSE IF SameLabelOverlap(obj, f)
             THEN "drop"
             ELSE InnerLoop(objs, i, filtered, k + 1)

RECURSIVE OuterLoop(_, _, _)
OuterLoop(objs, i, filtered) ==
    IF i > Len(objs) THEN [ raised |-> FALSE, filtered |-> filtered ]
    ELSE LET verdict == InnerLoop(objs, i, filtered, 1)
         IN  IF verdict = "raise"
             THEN [ raised |-> TRUE, filtered |-> filtered ]
             ELSE IF verdict = "keep"
             THEN OuterLoop(objs, i + 1, Append(filtered, i))
             ELSE OuterLoop(objs, i + 1, filtered)

\* the candidates are taken from the last to the first: last seen wins
RECURSIVE ReverseLoop(_, _, _)
ReverseLoop(objs, i, filtered) ==
    IF i < 1 THEN [ raised |-> FALSE, filtered |-> filtered ]
    ELSE IF InnerLoop(objs, i, filtered, 1) = "keep"
    THEN ReverseLoop(objs, i - 1, << i >> \o filtered)
    ELSE ReverseLoop(objs, i - 1, filtered)

remove_overlapping_objects_last_wins(objs) == ReverseLoop(objs, Len(objs), << >>)

remove_overlapping_objects(objs) == OuterLoop(objs, 1, << >>)

Deref(objs, filtered) == [ k \in 1..Len(filtered) |-> objs[filtered[k]] ]

----------------------------------------------------------------------------
(* Step 4 of VisionProcessor.process_pil: distance estimation.             *)

bbox_w(bbox) == Max(1, bbox[3] - bbox[1])

\* the height without the clamp to one pixel
bbox_h_unclamped(bbox) == bbox[4] - bbox[2]

bbox_h(bbox) == Max(1, bbox[4] - bbox[2])

\* proxy = 1.0 / (bbox_h / height_px + 0.1) * 3.0
Proxy(h, H) ==
    IF H = 0 THEN ZeroDivisionError
    ELSE Divide(3 * 10 * H, 10 * h + H)

\* round(q, 1) in tenths, round(q, 2) in hundredths
Round1(q) == RoundQ(q.num * 10, q.den, 10)

Round2(q) == RoundQ(q.num * 100, q.den, 100)

\* the fallback: distance_cm = round(proxy * 100.0, 1).  The value reaches
\* round through five float operations; their error can only matter where the
\* exact quotient is a decimal tie, which no frame drawn below produces.
FallbackDistance(bbox, H) ==
    LET proxy == Proxy(bbox_h(bbox), H)
    IN  IF proxy.raised THEN [ raised |-> TRUE, val |-> 0 ]
        ELSE [ raised |-> FALSE,
               val    |-> Round1(Float(proxy.num * 100, proxy.den)) ]

\* the known-label branch dividing by the height of the box
KnownDistanceByHeight(label, bbox, kw, focal) ==
    [ raised |-> FALSE,
      val    |-> Round1(Float(kw[label] * focal, 10 * bbox_h(bbox))) ]

\* the known-label branch:
\* distance_cm = round((real_w_cm * FOCAL_LENGTH_PX) / float(bbox_w), 1)
KnownDistance(label, bbox, kw, focal) ==
    LET q == Divide(kw[label] * focal, 10 * bbox_w(bbox))
    IN  IF q.raised THEN [ raised |-> TRUE, val |-> 0 ]
        ELSE [ raised |-> FALSE, val |-> Round1(q) ]

\* the body of the try block, then the except block
DistanceCm(label, bbox, H, kw, focal) ==
    LET try == IF label \in DOMAIN kw
               THEN KnownDistance(label, bbox, kw, focal)
               ELSE FallbackDistance(bbox, H)
    IN  IF try.raised THEN FallbackDistance(bbox, H) ELSE try

\* out["distances"][label] = round(distance_cm / 100.0, 2)
DistanceM(distance_cm) == Round2(Float(distance_cm, 10 * 100))

\* the loop over out["objects"]
RECURSIVE DistanceLoop(_, _, _, _, _, _)

\* the loop leaving objects of unknown label without a distance
DistanceLoopKnownOnly(objs, i, distances, H, kw, focal) ==
    IF i > Len(objs)
    THEN [ raised |-> FALSE, objects |-> objs, distances |-> distances ]
    ELSE IF objs[i].label \notin DOMAIN kw
    THEN DistanceLoop(objs, i + 1, distances, H, kw, focal)
    ELSE LET d == DistanceCm(objs[i].label, objs[i].bbox, H, kw, focal)
         IN  DistanceLoop(
                 [ objs EXCEPT ![i].distance_cm = Some(d.val) ],
                 i + 1,
                 Put(distances, objs[i].label, DistanceM(d.val)),
                 H, kw, focal)

\* the loop keeping the first value written for a label
DistanceLoopFirstWins(objs, i, distances, H, kw, focal) ==
    IF i > Len(objs)
    THEN [ raised |-> FALSE, objects |-> objs, distances |-> distances ]
    ELSE LET d == DistanceCm(objs[i].label, objs[i].bbox, H, kw, focal)
         IN  DistanceLoop(
                 [ objs EXCEPT ![i].distance_cm = Some(d.val) ],
                 i + 1,
                 IF objs[i].label \in DOMAIN distances
                 THEN distances
                 ELSE Put(distances, objs[i].label, DistanceM(d.val)),
                 H, kw, focal)

DistanceLoop(objs, i, distances, H, kw, focal) ==
    IF i > Len(objs)
    THEN [ raised |-> FALSE, objects |-> objs, distances |-> distances ]
    ELSE LET o == objs[i]
             d == DistanceCm(o.label, o.bbox, H, kw, focal)
         IN  IF d.raised
             THEN [ raised |-> TRUE, objects |-> objs, distances |-> distances ]
             ELSE DistanceLoop(
                      [ objs EXCEPT ![i].distance_cm = Some(d.val) ],
                      i + 1,
                      Put(distances, o.label, DistanceM(d.val)),
                      H, kw, focal)

----------------------------------------------------------------------------
(* What the collaborators can return.                                      *)

Requests == { "r1", "r2" }

\* img.shape[0] of the frames the server receives
FrameHeights == { 1000 }

\* img.shape[0] of the frames of the distance step taken on its own
Heights == { 480, 1000 }

BoxA == << 0, 0, 100, 100 >>

\* inside BoxA, IoU 0.8 with it
BoxB == << 0, 0, 100, 80 >>

\* IoU exactly 0.5 with BoxA and 0.625 with BoxB
BoxC == << 0, 0, 100, 50 >>

\* disjoint from the others, 300 px wide and 100 px high
BoxD == << 200, 0, 500, 100 >>

Detection(label, bbox, score) ==
    [ label |-> label, bbox |-> bbox, score |-> score, distance_cm |-> None ]

\* the detector's output, already normalised as in the zip loop
Detections ==
    { Detection("pen", BoxA, 50),
      Detection("pen", BoxB, 90),
      Detection("pen", BoxC, 70),
      Detection("pen", BoxD, 60),
      Detection("notebook small", BoxD, 80),
      Detection("person", BoxD, 95) }

DetectionSeqs == UNION { [ 1..n -> Detections ] : n \in 0..MaxDets }

\* EasyOCR readtext(detail=0)
TextSeqs == { << >>, << "EXIT" >> }

\* detectMultiScale rectangles (x, y, w, h)
FaceSeqs == { << >>, << << 10, 20, 30, 40 >> >> }

EmptyOut ==
    [ objects |-> << >>, texts |-> << >>, faces |-> << >>,
      distances |-> EmptyMap ]

NoResponse == [ req |-> "none", status |-> 0, body |-> EmptyOut ]

InProcess == { "decoded", "detected", "ocr_done", "faces_done" }

----------------------------------------------------------------------------
(* The server.  uvicorn runs analyze_frame on one event loop: the only     *)
(* await of the handler is file.read(), so from Image.open to the return   *)
(* one call runs without another call taking a step.  The locals of        *)
(* process_pil are kept after the call returns, until the next call        *)
(* starts, so that a response can be compared with what produced it.       *)

Init ==
    /\ KNOWN_WIDTH = KnownWidthTable
    /\ FOCAL_LENGTH_PX = FocalLengthPx
    /\ pc = [ r \in Requests |-> "idle" ]
    /\ height_px = 0
    /\ objects = << >>
    /\ filtered_objects = << >>
    /\ out = EmptyOut
    /\ failure = "none"
    /\ response = NoResponse
    /\ iouA = BoxA
    /\ iouB = BoxA
    /\ iouOut = [ done |-> FALSE, result |-> Float(0, 1) ]

\* process_pil reads self.KNOWN_WIDTH and self.FOCAL_LENGTH_PX and assigns neither
SelfWritten ==
    /\ KNOWN_WIDTH' = Put(KNOWN_WIDTH, "person", 450)
    /\ FOCAL_LENGTH_PX' = FOCAL_LENGTH_PX

SelfUntouched == UNCHANGED << KNOWN_WIDTH, FOCAL_LENGTH_PX >>

\* the handler answers a partial result instead of the error
PropagatePartial(r, e) ==
    /\ response' = [ req |-> r, status |-> 200, body |-> out ]
    /\ failure' = e
    /\ pc' = [ pc EXCEPT ![r] = "idle" ]
    /\ height_px' = 0
    /\ objects' = << >>
    /\ filtered_objects' = << >>
    /\ out' = EmptyOut

\* an exception leaves process_pil and reaches the except block of analyze_frame
Propagate(r, e) ==
    /\ response' = [ req |-> r, status |-> 500, body |-> [ error |-> e ] ]
    /\ failure' = e
    /\ pc' = [ pc EXCEPT ![r] = "idle" ]
    /\ height_px' = 0
    /\ objects' = << >>
    /\ filtered_objects' = << >>
    /\ out' = EmptyOut

\* POST /analyze-frame arrives and the handler awaits file.read()
Upload(r) ==
    /\ pc[r] = "idle"
    /\ pc' = [ pc EXCEPT ![r] = "reading" ]
    /\ UNCHANGED << KNOWN_WIDTH, FOCAL_LENGTH_PX, height_px, objects,
                    filtered_objects, out, failure, response, iouVars >>

\* Image.open(...).convert("RGB"), then the first lines of process_pil
Decode(r) ==
    /\ pc[r] = "reading"
    /\ \A q \in Requests \ {r} : pc[q] \notin InProcess
    /\ \/ Propagate(r, "decode")
       \/ \E H \in FrameHeights :
            /\ height_px' = H
            /\ objects' = << >>
            /\ filtered_objects' = << >>
            /\ out' = EmptyOut
            /\ failure' = "none"
            /\ response' = NoResponse
            /\ pc' = [ pc EXCEPT ![r] = "decoded" ]
    /\ UNCHANGED << KNOWN_WIDTH, FOCAL_LENGTH_PX, iouVars >>

\* step 1: the detector, the zip loop and remove_overlapping_objects
Detect(r) ==
    /\ pc[r] = "decoded"
    /\ \/ Propagate(r, "yolo")
       \/ \E d \in DetectionSeqs :
            LET res == remove_overlapping_objects(d)
            IN  IF res.raised
                THEN Propagate(r, "iou")
                ELSE /\ objects' = d
                     /\ filtered_objects' = res.filtered
                     /\ out' = [ out EXCEPT !.objects = Deref(d, res.filtered) ]
                     /\ pc' = [ pc EXCEPT ![r] = "detected" ]
                     /\ UNCHANGED << height_px, failure, response >>
    /\ SelfUntouched
    /\ UNCHANGED iouVars

\* step 2: the text recognizer
Ocr(r) ==
    /\ pc[r] = "detected"
    /\ \/ Propagate(r, "ocr")
       \/ \E t \in TextSeqs :
            /\ out' = [ out EXCEPT !.texts = t ]
            /\ pc' = [ pc EXCEPT ![r] = "ocr_done" ]
            /\ UNCHANGED << height_px, objects, filtered_objects, failure,
                            response >>
    /\ SelfUntouched
    /\ UNCHANGED iouVars

faces_list(detected_faces) ==
    [ k \in 1..Len(detected_faces) |->
        LET f == detected_faces[k]
        IN  [ bbox   |-> << f[1], f[2], f[1] + f[3], f[2] + f[4] >>,
              status |-> "unknown" ] ]

\* step 3: the face detector
Faces(r) ==
    /\ pc[r] = "ocr_done"
    /\ \/ Propagate(r, "face")
       \/ \E f \in FaceSeqs :
            /\ out' = [ out EXCEPT !.faces = faces_list(f) ]
            /\ pc' = [ pc EXCEPT ![r] = "faces_done" ]
            /\ UNCHANGED << height_px, objects, filtered_objects, failure,
                            response >>
    /\ SelfUntouched
    /\ UNCHANGED iouVars

\* step 4: distance estimation, return out, JSONResponse(results)
Estimate(r) ==
    /\ pc[r] = "faces_done"
    /\ LET res == DistanceLoop(out.objects, 1, out.distances, height_px,
                               KNOWN_WIDTH, FOCAL_LENGTH_PX)
       IN  IF res.raised
           THEN Propagate(r, "distance")
           ELSE /\ out' = [ out EXCEPT !.objects = res.objects,
                                       !.distances = res.distances ]
                /\ response' = [ req |-> r, status |-> 200, body |-> out' ]
                /\ pc' = [ pc EXCEPT ![r] = "idle" ]
                /\ UNCHANGED << height_px, objects, filtered_objects, failure >>
    /\ SelfUntouched
    /\ UNCHANGED iouVars

Next ==
    \E r \in Requests :
        \/ Upload(r)
        \/ Decode(r)
        \/ Detect(r)
        \/ Ocr(r)
        \/ Faces(r)
        \/ Estimate(r)

Spec == Init /\ [][Next]_vars

----------------------------------------------------------------------------
(* iou on its own, over every pair of boxes of a grid, the degenerate and  *)
(* the inverted ones included.                                             *)

GridBoxes ==
    { << x1, y1, x2, y2 >> : x1 \in 0..MaxCoord, y1 \in 0..MaxCoord,
                             x2 \in 0..MaxCoord, y2 \in 0..MaxCoord }

InitIou ==
    /\ KNOWN_WIDTH = KnownWidthTable
    /\ FOCAL_LENGTH_PX = FocalLengthPx
    /\ pc = [ r \in Requests |-> "idle" ]
    /\ height_px = 0
    /\ objects = << >>
    /\ filtered_objects = << >>
    /\ out = EmptyOut
    /\ failure = "none"
    /\ response = NoResponse
    /\ iouA \in GridBoxes
    /\ iouB \in GridBoxes
    /\ iouOut = [ done |-> FALSE, result |-> Float(0, 1) ]

CallIou ==
    /\ ~iouOut.done
    /\ iouOut' = [ done |-> TRUE, result |-> iou(iouA, iouB) ]
    /\ UNCHANGED << serverVars, iouA, iouB >>

NextIou == CallIou

SpecIou == InitIou /\ [][NextIou]_vars

----------------------------------------------------------------------------
(* Step 4 on its own: process_pil stands before the distance loop with one *)
(* surviving detection, of any label and any box of a 100 px grid, the     *)
(* degenerate and the inverted boxes included, or a box spanning a very    *)
(* wide panorama.                                                          *)

EstimateLabels == { "pen", "ruler", "tennis ball", "person" }

WideBox == << 0, 0, 20000, 100 >>

PixelBoxes ==
    { << 100 * b[1], 100 * b[2], 100 * b[3], 100 * b[4] >> : b \in GridBoxes }
        \cup { WideBox }

InitEstimate ==
    /\ KNOWN_WIDTH = KnownWidthTable
    /\ FOCAL_LENGTH_PX = FocalLengthPx
    /\ pc = [ r \in Requests |-> IF r = "r1" THEN "faces_done" ELSE "idle" ]
    /\ height_px \in Heights
    /\ \E l \in EstimateLabels, b \in PixelBoxes :
         /\ objects = << Detection(l, b, 50) >>
         /\ out = [ EmptyOut EXCEPT !.objects = << Detection(l, b, 50) >> ]
    /\ filtered_objects = << 1 >>
    /\ failure = "none"
    /\ response = NoResponse
    /\ iouA = BoxA
    /\ iouB = BoxA
    /\ iouOut = [ done |-> FALSE, result |-> Float(0, 1) ]

NextEstimate == \E r \in Requests : Estimate(r)

SpecEstimate == InitEstimate /\ [][NextEstimate]_vars

----------------------------------------------------------------------------
(* Properties.                                                             *)

Width(bbox) == bbox[3] - bbox[1]

Height(bbox) == bbox[4] - bbox[2]

\* IoU strictly greater than one half, from the value iou returns
OverHalf(a, b) ==
    LET q == iou(a, b)
    IN  ~q.raised /\ q.den > 0 /\ 2 * q.num > q.den

Kept == Range(filtered_objects)

PenA == Detection("pen", BoxA, 50)
PenB == Detection("pen", BoxB, 90)
PenC == Detection("pen", BoxC, 70)
PenD == Detection("pen", BoxD, 60)
NotebookD == Detection("notebook small", BoxD, 80)

\* C1: in remove_overlapping_objects the detection at position i is dropped
\* exactly when some detection at an earlier position j was itself accepted,
\* has the same label and has IoU strictly greater than 0.5 with it; a
\* detection that was dropped never causes a later drop.
C1_DroppedIffAcceptedOverlap ==
    \A i \in 1..Len(objects) :
        (i \notin Kept) <=>
            \E j \in 1..(i - 1) :
                /\ j \in Kept
                /\ objects[j].label = objects[i].label
                /\ OverHalf(objects[i].bbox, objects[j].bbox)

\* PenB is dropped by PenA; PenC overlaps the dropped PenB above 0.5 and the
\* accepted PenA at exactly 0.5, and survives
C1_Witness ==
    /\ objects = << PenA, PenB, PenC >>
    /\ filtered_objects = << 1, 3 >>

\* C2: the output of remove_overlapping_objects is a subsequence of its input
\* (input detections only, each position at most once, in input order), and a
\* non-empty input keeps its first detection whatever the scores.
C2_OrderedSubsequence ==
    /\ \A k \in 1..Len(filtered_objects) :
           filtered_objects[k] \in 1..Len(objects)
    /\ \A k1 \in 1..Len(filtered_objects), k2 \in 1..Len(filtered_objects) :
           k1 < k2 => filtered_objects[k1] < filtered_objects[k2]
    /\ Len(out.objects) = Len(filtered_objects)
    /\ \A k \in 1..Len(filtered_objects) :
           /\ out.objects[k].label = objects[filtered_objects[k]].label
           /\ out.objects[k].bbox = objects[filtered_objects[k]].bbox
           /\ out.objects[k].score = objects[filtered_objects[k]].score
    /\ Len(objects) > 0 =>
           Len(filtered_objects) > 0 /\ filtered_objects[1] = 1

\* the first detection wins against a later overlapping one of higher score
C2_Witness ==
    /\ objects = << PenA, PenD, PenB >>
    /\ filtered_objects = << 1, 2 >>
    /\ objects[3].score > objects[1].score

\* C10: the output of remove_overlapping_objects never holds two detections at
\* different positions with the same label and IoU above 0.5, and applying the
\* operation to its own output returns that output unchanged.
C10_NoOverlapIdempotent ==
    /\ \A k1 \in 1..Len(out.objects), k2 \in 1..Len(out.objects) :
           k1 # k2 =>
               ~ ( /\ out.objects[k1].label = out.objects[k2].label
                   /\ OverHalf(out.objects[k1].bbox, out.objects[k2].bbox) )
    /\ LET again == remove_overlapping_objects(out.objects)
       IN  /\ ~again.raised
           /\ Deref(out.objects, again.filtered) = out.objects

\* an overlapping pair was offered with another detection between them
C10_Witness ==
    /\ objects = << PenA, PenD, PenB >>
    /\ Len(out.objects) = 2
    /\ out.objects[1].bbox = BoxA
    /\ out.objects[2].bbox = BoxD

\* the distance the two formulas of the distance estimator give, in tenths of
\* a centimetre: width_cm * 850 / max(1, x2 - x1) for a label of the table,
\* (1 / (max(1, y2 - y1) / image height + 0.1)) * 3 * 100 otherwise
ExpectedDistanceCm(o, H) ==
    IF o.label \in DOMAIN KnownWidthTable
    THEN RoundQ(KnownWidthTable[o.label] * 850, Max(1, Width(o.bbox)), 10)
    ELSE RoundQ(3 * 100 * 10 * 10 * H, 10 * Max(1, Height(o.bbox)) + H, 10)

Answered == response.status = 200

\* C3: every surviving detection gets distance_cm from one of two branches:
\* the pinhole formula over the clamped box width when its label is in the
\* reference-width table ("ruler" at 300 px gives 85.0), and the height proxy
\* over the clamped box height otherwise (100 px in a 1000 px image gives
\* 1500.0).
C3_TwoBranchDistance ==
    Answered =>
        \A k \in 1..Len(response.body.objects) :
            LET o == response.body.objects[k]
            IN  /\ o.distance_cm = Some(ExpectedDistanceCm(o, height_px))
                /\ (o.label = "ruler" /\ Width(o.bbox) = 300)
                       => o.distance_cm = Some(850)
                /\ ( /\ o.label \notin DOMAIN KnownWidthTable
                     /\ Height(o.bbox) = 100
                     /\ height_px = 1000 )
                       => o.distance_cm = Some(15000)

C3_Witness ==
    /\ Answered
    /\ response.body.objects[1].label = "ruler"
    /\ Width(response.body.objects[1].bbox) = 300
    /\ Height(response.body.objects[1].bbox) = 200
    /\ response.body.objects[1].distance_cm = Some(850)

\* the distance step finished without raising and left a distance on every
\* object, computed with divisors of at least one pixel
DistanceStepTotal ==
    /\ failure # "distance"
    /\ pc["r1"] = "idle" => Answered
    /\ Answered =>
           \A k \in 1..Len(response.body.objects) :
               LET o == response.body.objects[k]
               IN  /\ bbox_w(o.bbox) >= 1
                   /\ bbox_h(o.bbox) >= 1
                   /\ o.distance_cm # None

\* C4 as stated: the distance step never raises and every object, whatever
\* its box and label, ends with a finite and strictly positive distance_cm.
C4_AlwaysStrictlyPositive ==
    /\ DistanceStepTotal
    /\ Answered =>
           \A k \in 1..Len(response.body.objects) :
               response.body.objects[k].distance_cm[1] > 0

\* the unrounded estimate of the object is below 0.05 cm
BelowHalfTenth(o, H) ==
    IF o.label \in DOMAIN KnownWidthTable
    THEN 2 * KnownWidthTable[o.label] * 850 < Max(1, Width(o.bbox))
    ELSE 2 * 3 * 100 * 10 * 10 * H < 10 * Max(1, Height(o.bbox)) + H

\* C4 amended: the distance step never raises and every object, whatever its
\* box and label, ends with a finite distance_cm that is never negative, and
\* is zero only when the unrounded estimate is below 0.05 cm and rounds to 0.0.
C4_FiniteNonNegative ==
    /\ DistanceStepTotal
    /\ Answered =>
           \A k \in 1..Len(response.body.objects) :
               LET o == response.body.objects[k]
               IN  /\ o.distance_cm[1] >= 0
                   /\ o.distance_cm[1] = 0 => BelowHalfTenth(o, height_px)

\* an inverted box of unknown label: both divisors were clamped to one pixel
C4_Witness ==
    /\ Answered
    /\ response.body.objects[1].label = "person"
    /\ response.body.objects[1].bbox = << 100, 100, 0, 0 >>
    /\ height_px = 1000
    /\ response.body.objects[1].distance_cm = Some(29703)

LabelsOf(objs) == { objs[k].label : k \in 1..Len(objs) }

\* C5: the objects of the result are exactly the deduplicated detections,
\* each with a distance_cm that is not null, and the distances map has one key
\* per distinct label among them; two overlapping "pen" detections (IoU 0.8)
\* and one "notebook small" elsewhere give 2 objects and 2 keys.
C5_EndToEnd ==
    Answered =>
        LET body == response.body
        IN  /\ Len(body.objects) = Len(filtered_objects)
            /\ \A k \in 1..Len(body.objects) :
                   /\ body.objects[k].label = objects[filtered_objects[k]].label
                   /\ body.objects[k].bbox = objects[filtered_objects[k]].bbox
                   /\ body.objects[k].score = objects[filtered_objects[k]].score
                   /\ body.objects[k].distance_cm # None
            /\ DOMAIN body.distances = LabelsOf(body.objects)
            /\ objects = << PenA, PenB, NotebookD >> =>
                   /\ Len(body.objects) = 2
                   /\ Cardinality(DOMAIN body.distances) = 2

C5_Witness ==
    /\ Answered
    /\ objects = << PenA, PenB, NotebookD >>
    /\ Equal(iou(BoxA, BoxB), 4, 5)
    /\ Len(response.body.objects) = 2
    /\ DOMAIN response.body.distances = { "pen", "notebook small" }

\* the last position of the label among the objects
LastOf(objs, L) ==
    CHOOSE k \in 1..Len(objs) :
        /\ objs[k].label = L
        /\ \A m \in (k + 1)..Len(objs) : objs[m].label # L

\* C6: for every label L among the surviving objects, distances[L] is
\* round(distance_cm / 100, 2) of the last surviving object labelled L.
C6_LastWriteWins ==
    Answered =>
        LET body == response.body
        IN  \A L \in LabelsOf(body.objects) :
                /\ L \in DOMAIN body.distances
                /\ body.distances[L] =
                       RoundQ(body.objects[LastOf(body.objects, L)].distance_cm[1],
                              10, 100)

\* two pens that do not overlap: 8.5 cm and 2.8 cm; the map holds 0.03 m
C6_Witness ==
    /\ Answered
    /\ objects = << PenA, PenD >>
    /\ response.body.objects[1].distance_cm = Some(85)
    /\ response.body.objects[2].distance_cm = Some(28)
    /\ response.body.distances["pen"] = 3

FrameResultKeys == { "objects", "texts", "faces", "distances" }

\* C7: a failure of image decoding or of a collaborator is not absorbed by
\* process_pil: the request is answered with status 500 and an error field,
\* never with a partial result; a request ends either with a complete
\* FrameResult (status 200, four containers) or with the error response.
C7_CompleteOrError ==
    /\ response.status \in { 0, 200, 500 }
    /\ failure # "none" => response.status = 500
    /\ response.status = 500 =>
           /\ failure # "none"
           /\ DOMAIN response.body = { "error" }
    /\ response.status = 200 =>
           /\ failure = "none"
           /\ DOMAIN response.body = FrameResultKeys
           /\ Len(response.body.objects) = Len(filtered_objects)
           /\ \A k \in 1..Len(response.body.objects) :
                  response.body.objects[k].distance_cm # None
    /\ \A r \in Requests :
           pc[r] \in InProcess => response.status = 0

\* the text recognizer raised after the detector had filled out["objects"]
C7_Witness ==
    /\ response.status = 500
    /\ response.body.error = "ocr"
    /\ failure = "ocr"

\* process_pil run on its own on the outputs of the collaborators, with the
\* table and the focal length the constructor sets
RunAlone(dets, texts, faces, H) ==
    LET kept == remove_overlapping_objects(dets).filtered
        res  == DistanceLoop(Deref(dets, kept), 1, EmptyMap, H,
                             KnownWidthTable, FocalLengthPx)
    IN  [ objects |-> res.objects, texts |-> texts, faces |-> faces,
          distances |-> res.distances ]

\* C9: no process_pil call writes KNOWN_WIDTH or FOCAL_LENGTH_PX, and the
\* result of each call is the result of that call run alone on the same
\* collaborator outputs, whatever was processed before or is in flight.
C9_RequestsIndependent ==
    /\ KNOWN_WIDTH = KnownWidthTable
    /\ FOCAL_LENGTH_PX = FocalLengthPx
    /\ Answered =>
           response.body = RunAlone(objects, out.texts, out.faces, height_px)

\* r2 is answered while r1, uploaded meanwhile, waits for its turn
C9_Witness ==
    /\ Answered
    /\ response.req = "r2"
    /\ pc["r1"] = "reading"
    /\ objects = << PenA, Detection("person", BoxD, 95) >>

EmptyIntersection(a, b) ==
    \/ Min(a[3], b[3]) <= Max(a[1], b[1])
    \/ Min(a[4], b[4]) <= Max(a[2], b[2])

\* C8: iou raises nothing on any pair of integer boxes, degenerate and
\* inverted ones included; it returns exactly 0.0 when the intersection
\* rectangle has zero area and a value in (0, 1] otherwise.
C8_IouTotalBounded ==
    iouOut.done =>
        LET q == iouOut.result
        IN  /\ ~q.raised
            /\ q.den > 0
            /\ EmptyIntersection(iouA, iouB) => q.num = 0
            /\ ~EmptyIntersection(iouA, iouB) => (0 < q.num /\ q.num <= q.den)

\* an inverted box against a box of zero area
C8_Witness ==
    /\ iouOut.done
    /\ iouA = << 3, 3, 0, 0 >>
    /\ iouB = << 1, 1, 1, 1 >>
    /\ iouOut.result = Float(0, 1)

====
